---- MODULE Spec2Model ----
(***************************************************************************)
(* PME Classifier: model of the training path (DataLoader, ModelTrainer,   *)
(* train_model.py), of the persisted artifact (joblib dump / load), of the *)
(* Predictor and of the FastAPI serving boundary (lifespan, routes,        *)
(* schemas).                                                               *)
(*                                                                         *)
(* Numbers.  A class probability is an integer number of 1/10000           *)
(* (Resolution units make 1.0); a percentage rounded to one decimal place  *)
(* is an integer number of tenths of a percent (1000 tenths make 100.0).   *)
(* Texts are sequences over the two-letter alphabet {" ", "a"}.            *)
(***************************************************************************)
EXTENDS Integers, Sequences, FiniteSets, TLC

\* ------------------------------------------------------------------ bounds

\* Longest text or message drawn as an input.
MaxMsgLen == 4
\* Most examples of one category in a dataset.
MaxPerClass == 5
\* Class probabilities are drawn within MaxDelta steps of an anchor value.
MaxDelta == 1
\* Worker threads running Predictor.predict at the same time.
MaxThreads == 2

\* ------------------------------------------------------- program constants

\* predictor.py: round(float(prob) * 100, 1): probabilities become percent.
Percent == 100
\* One decimal place: ten tenths in a percent.
Tenths == 10
\* Units of probability in 1.0 (hundredths of a percent).
Resolution == Percent * 100
\* schemas.py: Field(min_length=3, max_length=2000).
min_length == 3
max_length == 2000
\* settings.py: test_size = 0.2, in percent.
test_size == 20
\* trainer.py: cross_val_score(..., cv=5).
cv == 5

\* loader.py CLASSES_VALIDES, in the sorted order scikit-learn keeps classes_.
CLASSES_VALIDES == <<"Commande", "Information", "Reclamation", "Urgence">>

\* ------------------------------------------------------------------- texts

Alphabet == {" ", "a"}

RECURSIVE SeqsUpTo(_)
SeqsUpTo(n) ==
    IF n = 0 THEN {<<>>}
    ELSE LET shorter == SeqsUpTo(n - 1)
         IN  shorter \cup {Append(s, c) : s \in {t \in shorter : Len(t) = n - 1}, c \in Alphabet}

Texts == SeqsUpTo(MaxMsgLen)

\* str.strip(): drop the leading and the trailing whitespace.
RECURSIVE lstrip(_)
lstrip(s) == IF s # <<>> /\ Head(s) = " " THEN lstrip(Tail(s)) ELSE s

RECURSIVE rstrip(_)
rstrip(s) ==
    IF s # <<>> /\ s[Len(s)] = " " THEN rstrip(SubSeq(s, 1, Len(s) - 1)) ELSE s

strip(s) == rstrip(lstrip(s))

\* --------------------------------------------------------------- pipelines

\* A scikit-learn Pipeline object as the program holds it.  state is "None"
\* (no object), "unfitted" (as _build_pipeline returns it), "partial" (the
\* TF-IDF step fitted, the classifier not) or "fitted"; classes_ and proba
\* are the learned parameters: the class list and, for a text with at least
\* one vocabulary term, the class probabilities in Resolution units.
\* converged tells whether the optimizer stopped before max_iter (n_iter_).
None == [state |-> "None", classes_ |-> <<>>, proba |-> <<>>, converged |-> FALSE]

RECURSIVE Sum(_)
Sum(s) == IF s = <<>> THEN 0 ELSE Head(s) + Sum(Tail(s))

\* The class lists a fit can learn: the classes present in the labels, sorted.
RECURSIVE SubSeqsOf(_)
SubSeqsOf(s) ==
    IF s = <<>> THEN {<<>>}
    ELSE LET rest == SubSeqsOf(Tail(s))
         IN  rest \cup {<<Head(s)>> \o r : r \in rest}

ClassLists == {c \in SubSeqsOf(CLASSES_VALIDES) : Len(c) >= 2}

\* Probability vectors over n classes: non-negative, summing to Resolution.
\* The first n-1 entries lie near an anchor: within delta hundredths of a
\* percent of it, or delta rounding ties (0.05 %) away; the last entry is
\* the remainder.
AnchorValues == {0, Resolution \div 4}
TieStep == Resolution \div (Percent * Tenths * 2)

Offsets(delta) ==
    {d : d \in (0 - delta)..delta} \cup {TieStep * d : d \in (0 - delta)..delta}

ProbasWithin(n, delta) ==
    LET heads == {[i \in 1..(n - 1) |-> a + d[i]] :
                     a \in AnchorValues, d \in [1..(n - 1) -> Offsets(delta)]}
        full  == {h \o <<Resolution - Sum(h)>> : h \in heads}
    IN  {p \in full : \A i \in 1..n : p[i] >= 0}

Probas(n) == ProbasWithin(n, MaxDelta)

\* The prior-dominated answer for a text with no vocabulary term: the
\* balanced class weights make it (all but) uniform.
Prior(n) == [i \in 1..n |-> IF i < n THEN Resolution \div n
                            ELSE Resolution - (n - 1) * (Resolution \div n)]

\* What a completed Pipeline.fit can leave behind.
FittedPipelines ==
    UNION {{[state |-> "fitted", classes_ |-> c, proba |-> p, converged |-> TRUE] :
               p \in Probas(Len(c))} : c \in ClassLists}

\* The probabilities scikit-learn's predict_proba answers for one text: the
\* learned ones when the text holds a term of the vocabulary (a word of two
\* letters or more), the prior otherwise.
HasTerm(texte) == \E i \in 1..(Len(texte) - 1) : texte[i] = "a" /\ texte[i + 1] = "a"

predict_proba(pipe, texte) ==
    IF HasTerm(texte) THEN pipe.proba ELSE Prior(Len(pipe.classes_))

\* numpy max and argmax (the first index holding the maximum).
RECURSIVE npmax(_)
npmax(s) ==
    IF Len(s) = 1 THEN s[1]
    ELSE LET m == npmax(Tail(s)) IN IF s[1] >= m THEN s[1] ELSE m

argmax(s) == CHOOSE i \in 1..Len(s) : s[i] = npmax(s) /\ \A j \in 1..(i - 1) : s[j] # npmax(s)

\* round(float(prob) * 100, 1): a probability in Resolution units to tenths
\* of a percent, to the nearest tenth, a tie going to the even tenth.
UnitsPerTenth == Resolution \div (Percent * Tenths)

\* A rounding that truncates to the tenth below.
round1Truncated(prob) == prob \div UnitsPerTenth

round1(prob) ==
    LET q == prob \div UnitsPerTenth
        r == prob % UnitsPerTenth
    IN  IF 2 * r < UnitsPerTenth THEN q
        ELSE IF 2 * r > UnitsPerTenth THEN q + 1
        ELSE IF q % 2 = 0 THEN q ELSE q + 1

\* joblib.dump / joblib.load: the artifact is the pickled object, field by
\* field; a file is [exists, data].
NoFile == [exists |-> FALSE, data |-> <<>>]

\* A dump that stores the probabilities in reduced precision.
dumpReducedPrecision(pipe) ==
    [exists |-> TRUE,
     data |-> <<pipe.state, pipe.classes_,
                [i \in 1..Len(pipe.proba) |-> pipe.proba[i] - (pipe.proba[i] % UnitsPerTenth)],
                pipe.converged>>]

dump(pipe) ==
    [exists |-> TRUE, data |-> <<pipe.state, pipe.classes_, pipe.proba, pipe.converged>>]

joblib_load(file) ==
    [state |-> file.data[1], classes_ |-> file.data[2], proba |-> file.data[3],
     converged |-> file.data[4]]

\* What Pipeline.fit leaves behind where the model also tracks files and
\* callers: the classes of the labels, probabilities on an anchor, the
\* optimizer having converged or not.
FitResults(c) ==
    {[state |-> "fitted", classes_ |-> c, proba |-> p, converged |-> k] :
        p \in ProbasWithin(Len(c), 0), k \in BOOLEAN}

\* The artifacts a Predictor finds on disk.
ArtifactPipelines == {p \in UNION {FitResults(c) : c \in ClassLists} : p.converged}

\* ------------------------------------------------------------------- state

VARIABLES
    dataset_path,   \* the CSV file at settings.dataset_path
    model_path,     \* the file at settings.model_path: [exists, data]
    trainer,        \* ModelTrainer: [pipeline, has_test (X_test, y_test are set)]
    train_call,     \* the last call on the ModelTrainer and what it raised
    run,            \* train_model.py main(): [pc, data, saves]
    predictor,      \* Predictor._pipeline
    ever_loaded,    \* history: a Predictor.load() has returned normally
    call,           \* the last call on the Predictor and what it gave
    app,            \* the serving process: [state, predictor, loads, ...]
    response,       \* the last HTTP request handled and its response
    threads,        \* the predict() calls in progress, one per worker thread
    trace           \* history: the statements of train() executed, in order

vars == <<dataset_path, model_path, trainer, train_call, run,
          predictor, ever_loaded, call, app, response, threads, trace>>

trainVars == <<dataset_path, trainer, train_call, run, trace>>
predictorVars == <<predictor, ever_loaded, call>>
apiVars == <<app, response>>

\* --------------------------------------------------------------- Predictor

\* PredictionResult(classe, confiance, probabilites); confiance and the
\* probabilites are tenths of a percent, probabilites a dict in classes_
\* order.
NoResult == [classe |-> "", confiance |-> 0, probabilites |-> <<>>]

NoCall == [op |-> "none", texte |-> <<>>, raised |-> "None",
           result |-> NoResult, classes |-> <<>>]

is_loaded(pipe) == pipe # None

\* A _check_loaded that lets everything through.
CheckLoadedSkipped(pipe) == "None"

\* Predictor._check_loaded: the exception it raises, "None" when it returns.
_check_loaded(pipe) == IF pipe = None THEN "RuntimeError" ELSE "None"

\* The body of Predictor.predict after _check_loaded.
Percentages(probas_array) == [i \in 1..Len(probas_array) |-> round1(probas_array[i])]

\* A confidence cut, not rounded, to one decimal place.
ConfianceTruncated(probas_array) == npmax(probas_array) \div UnitsPerTenth

Confiance(probas_array) == round1(npmax(probas_array))

PredictionResult(pipe, texte) ==
    LET probas_array == predict_proba(pipe, texte)
        classes      == pipe.classes_
        pct          == Percentages(probas_array)
    IN  [classe       |-> classes[argmax(probas_array)],
         confiance    |-> Confiance(probas_array),
         probabilites |-> [i \in 1..Len(classes) |-> <<classes[i], pct[i]>>]]

\* Predictor.predict(texte): the exception raised and the value returned.
PredictRaises(pipe) ==
    IF _check_loaded(pipe) # "None" THEN _check_loaded(pipe)
    ELSE IF pipe.state # "fitted" THEN "NotFittedError"
    ELSE "None"

PredictReturns(pipe, texte) ==
    IF PredictRaises(pipe) = "None" THEN PredictionResult(pipe, texte) ELSE NoResult

\* Predictor.load(): FileNotFoundError when no file exists at model_path and
\* _pipeline untouched; else _pipeline is what joblib.load gives.
LoadRaises(file) == IF ~file.exists THEN "FileNotFoundError" ELSE "None"

\* A load() that forgets the pipeline it held when the file is missing.
LoadPipelineOrNone(pipe, file) == IF LoadRaises(file) = "None" THEN joblib_load(file) ELSE None

LoadPipeline(pipe, file) == IF LoadRaises(file) = "None" THEN joblib_load(file) ELSE pipe

Load ==
    /\ predictor' = LoadPipeline(predictor, model_path)
    /\ ever_loaded' = (ever_loaded \/ LoadRaises(model_path) = "None")
    /\ call' = [NoCall EXCEPT !.op = "load", !.raised = LoadRaises(model_path)]
    /\ UNCHANGED <<threads, model_path, trainVars, apiVars>>

Predict(texte) ==
    /\ call' = [NoCall EXCEPT !.op = "predict", !.texte = texte,
                              !.raised = PredictRaises(predictor),
                              !.result = PredictReturns(predictor, texte)]
    /\ UNCHANGED <<threads, model_path, trainVars, predictor, ever_loaded, apiVars>>

\* The classes property.
Classes ==
    /\ call' = [NoCall EXCEPT !.op = "classes",
                              !.raised = _check_loaded(predictor),
                              !.classes = IF _check_loaded(predictor) = "None"
                                          THEN predictor.classes_ ELSE <<>>]
    /\ UNCHANGED <<threads, model_path, trainVars, predictor, ever_loaded, apiVars>>

\* The environment of a Predictor: a training run writes the artifact, an
\* operator removes it.
ArtifactWritten(pipe) ==
    /\ model_path' = dump(pipe)
    /\ model_path' # model_path
    /\ UNCHANGED <<threads, trainVars, predictorVars, apiVars>>

ArtifactRemoved ==
    /\ model_path.exists
    /\ model_path' = NoFile
    /\ UNCHANGED <<threads, trainVars, predictorVars, apiVars>>

\* ---------------------------------------------------------------- datasets

\* The (X, y) a training call works on: y counts the examples of each
\* category, in CLASSES_VALIDES order; terms tells whether the texts hold at
\* least one word the TF-IDF step can put in its vocabulary.
CountValues == {c \in 0..MaxPerClass : c <= 2 \/ c >= cv}

Datasets ==
    {[y |-> c, terms |-> t] :
        c \in [1..Len(CLASSES_VALIDES) -> CountValues], t \in BOOLEAN}

NoData == [y |-> [i \in 1..Len(CLASSES_VALIDES) |-> 0], terms |-> FALSE]

\* np.unique(y): the categories present, sorted.
RECURSIVE PresentFrom(_, _)
PresentFrom(y, i) ==
    IF i > Len(CLASSES_VALIDES) THEN <<>>
    ELSE (IF y[i] > 0 THEN <<CLASSES_VALIDES[i]>> ELSE <<>>) \o PresentFrom(y, i + 1)

unique(y) == PresentFrom(y, 1)

n_samples(y) == Sum(y)

\* The CSV file: exists, and what _validate looks at.
CsvFiles ==
    {[exists |-> TRUE, columns |-> c, nulls |-> n, unknown |-> u, data |-> d] :
        c \in BOOLEAN, n \in BOOLEAN, u \in BOOLEAN, d \in Datasets}

NoCsv == [exists |-> FALSE, columns |-> FALSE, nulls |-> FALSE, unknown |-> FALSE,
          data |-> NoData]

\* DataLoader._read_csv and _validate: the exception load() raises.
LoaderRaises(csv) ==
    IF ~csv.exists THEN "FileNotFoundError"
    ELSE IF ~csv.columns THEN "ValueError"
    ELSE IF csv.nulls THEN "ValueError"
    ELSE IF csv.unknown THEN "ValueError"
    ELSE "None"

\* ------------------------------------------------------------ ModelTrainer

Unfitted == [state |-> "unfitted", classes_ |-> <<>>, proba |-> <<>>, converged |-> FALSE]

Partial == [state |-> "partial", classes_ |-> <<>>, proba |-> <<>>, converged |-> FALSE]

_build_pipeline == Unfitted

\* train_test_split(X, y, test_size, stratify=y): the sizes of the two
\* subsets, and the ValueError of a split that cannot be stratified.
n_test(n) == (test_size * n + (Percent - 1)) \div Percent

n_train(n) == n - n_test(n)

LeastPopulated(y) == \E i \in 1..Len(y) : y[i] > 0 /\ y[i] < 2

\* A split that forgets the least-populated-class check.
SplitRaisesNoMinimum(y) ==
    IF n_train(n_samples(y)) = 0 THEN "ValueError"
    ELSE IF n_train(n_samples(y)) < Len(unique(y)) THEN "ValueError"
    ELSE IF n_test(n_samples(y)) < Len(unique(y)) THEN "ValueError"
    ELSE "None"

SplitRaises(y) ==
    IF n_train(n_samples(y)) = 0 THEN "ValueError"
    ELSE IF LeastPopulated(y) THEN "ValueError"
    ELSE IF n_train(n_samples(y)) < Len(unique(y)) THEN "ValueError"
    ELSE IF n_test(n_samples(y)) < Len(unique(y)) THEN "ValueError"
    ELSE "None"

_split(data) == SplitRaises(data.y)

\* Pipeline.fit(X_train, y_train): the TF-IDF step raises on an empty
\* vocabulary, then the logistic regression raises on a single class; an
\* optimizer that stops at max_iter only warns.
\* A fit that turns the convergence warning into an error.
FitRaisesUnlessConverged(data, learned) ==
    IF ~data.terms THEN "ValueError"
    ELSE IF Len(unique(data.y)) < 2 THEN "ValueError"
    ELSE IF ~learned.converged THEN "ValueError"
    ELSE "None"

FitRaises(data, learned) ==
    IF ~data.terms THEN "ValueError"
    ELSE IF Len(unique(data.y)) < 2 THEN "ValueError"
    ELSE "None"

FitLeaves(pipe, data, learned) ==
    IF ~data.terms THEN pipe
    ELSE IF Len(unique(data.y)) < 2 THEN Partial
    ELSE learned

\* cross_val_score(pipeline, X, y, cv=5): StratifiedKFold raises when no
\* category has cv members; it fits clones, never the pipeline itself.
_cross_validate(data) ==
    IF \A i \in 1..Len(data.y) : data.y[i] < cv THEN "ValueError" ELSE "None"

\* ModelTrainer.train(X, y): the exception it raises and the step raising it.
TrainStage(data, learned) ==
    IF _split(data) # "None" THEN "split"
    ELSE IF FitRaises(data, learned) # "None" THEN "fit"
    ELSE IF _cross_validate(data) # "None" THEN "cross_validate"
    ELSE "done"

TrainRaises(data, learned) ==
    IF TrainStage(data, learned) = "done" THEN "None" ELSE "ValueError"

\* ... and the trainer it leaves behind.
TrainLeaves(tr, data, learned) ==
    IF _split(data) # "None" THEN tr
      ELSE [pipeline |-> FitLeaves(_build_pipeline, data, learned), has_test |-> TRUE]

\* ModelTrainer(): pipeline, X_test and y_test are None.
NewTrainer == [pipeline |-> None, has_test |-> FALSE]

NoTrainCall == [op |-> "none", raised |-> "None", stage |-> "none"]

Train(data, learned) ==
    /\ trainer' = TrainLeaves(trainer, data, learned)
    /\ train_call' = [op |-> "train", raised |-> TrainRaises(data, learned),
                      stage |-> TrainStage(data, learned)]
    /\ UNCHANGED <<threads, trace, dataset_path, model_path, run, predictorVars, apiVars>>

\* ModelTrainer.save().
SaveRaises(tr) == IF tr.pipeline = None THEN "RuntimeError" ELSE "None"

SaveWrites(tr, file) == IF SaveRaises(tr) = "None" THEN dump(tr.pipeline) ELSE file

Save ==
    /\ model_path' = SaveWrites(trainer, model_path)
    /\ train_call' = [op |-> "save", raised |-> SaveRaises(trainer), stage |-> "none"]
    /\ UNCHANGED <<threads, trace, dataset_path, trainer, run, predictorVars, apiVars>>

\* ------------------------------------------------- specification: Trainer
\* A ModelTrainer used as its docstring shows: train() and save() in any
\* order, on any dataset.

\* The serving process before startup, and no request handled yet.
NoHealth == [status |-> "", modele_charge |-> FALSE, classes_disponibles |-> <<>>]

NoRequest == [has_message |-> FALSE, message |-> <<>>]

NoResponse == [route |-> "none", request |-> NoRequest, status |-> 0,
               predict_called |-> FALSE, texte |-> <<>>, result |-> NoResult,
               action_automatique |-> <<>>, reponse_client |-> <<>>,
               health |-> NoHealth]

NoApp == [state |-> "init", predictor |-> FALSE, load_raised |-> "None",
          artifact_at_start |-> FALSE, loads |-> 0, pipeline |-> None]

NoRun == [pc |-> "start", data |-> NoData, raised |-> "None", saved |-> FALSE,
          model_before |-> NoFile]

\* A worker thread outside Predictor.predict, its locals unset.
NoThread == [pc |-> "idle", texte |-> <<>>, classe |-> "", probas_array |-> <<>>,
             classes |-> <<>>, raised |-> "None", result |-> NoResult]

Threads == 1..MaxThreads

IdleThreads == threads = [t \in Threads |-> NoThread]

IdlePredictor ==
    /\ predictor = None
    /\ ever_loaded = FALSE
    /\ call = NoCall
    /\ IdleThreads

IdleApi ==
    /\ app = NoApp
    /\ response = NoResponse

IdleTraining ==
    /\ dataset_path = NoCsv
    /\ trainer = NewTrainer
    /\ train_call = NoTrainCall
    /\ run = NoRun
    /\ trace = <<>>

InitTrainer ==
    /\ IdleTraining
    /\ model_path = NoFile
    /\ IdlePredictor
    /\ IdleApi

NextTrainer ==
    \/ \E data \in Datasets :
         \E learned \in {p \in FitResults(unique(data.y)) : p.converged} :
            Train(data, learned)
    \/ Save

SpecTrainer == InitTrainer /\ [][NextTrainer]_vars

\* ---------------------------------------- specification: train_model.py
\* main(): DataLoader().load(), ModelTrainer().train(X, y), trainer.save();
\* FileNotFoundError and ValueError end the run with sys.exit(1).

MainLoad ==
    /\ run.pc = "start"
    /\ run' = IF LoaderRaises(dataset_path) = "None"
              THEN [run EXCEPT !.pc = "loaded", !.data = dataset_path.data]
              ELSE [run EXCEPT !.pc = "exit1", !.raised = LoaderRaises(dataset_path)]
    /\ UNCHANGED <<threads, trace, dataset_path, model_path, trainer, train_call, predictorVars, apiVars>>

MainTrain(learned) ==
    /\ run.pc = "loaded"
    /\ trainer' = TrainLeaves(NewTrainer, run.data, learned)
    /\ train_call' = [op |-> "train", raised |-> TrainRaises(run.data, learned),
                      stage |-> TrainStage(run.data, learned)]
    /\ run' = IF TrainRaises(run.data, learned) = "None"
              THEN [run EXCEPT !.pc = "trained"]
              ELSE [run EXCEPT !.pc = "exit1", !.raised = TrainRaises(run.data, learned)]
    /\ UNCHANGED <<threads, trace, dataset_path, model_path, predictorVars, apiVars>>

MainSave ==
    /\ run.pc = "trained"
    /\ model_path' = SaveWrites(trainer, model_path)
    /\ train_call' = [op |-> "save", raised |-> SaveRaises(trainer), stage |-> "none"]
    /\ run' = IF SaveRaises(trainer) = "None"
              THEN [run EXCEPT !.pc = "done", !.saved = TRUE]
              ELSE [run EXCEPT !.pc = "raised", !.raised = SaveRaises(trainer)]
    /\ UNCHANGED <<threads, trace, dataset_path, trainer, predictorVars, apiVars>>

\* An artifact of an earlier run.
OldArtifact == dump(CHOOSE p \in ArtifactPipelines : Len(p.classes_) = Len(CLASSES_VALIDES))

InitRun ==
    /\ dataset_path \in CsvFiles \cup {NoCsv}
    /\ model_path \in {NoFile, OldArtifact}
    /\ trainer = NewTrainer
    /\ train_call = NoTrainCall
    /\ run = [NoRun EXCEPT !.model_before = model_path]
    /\ trace = <<>>
    /\ IdlePredictor
    /\ IdleApi

NextRun ==
    \/ MainLoad
    \/ \E learned \in FitResults(unique(run.data.y)) : MainTrain(learned)
    \/ MainSave

SpecRun == InitRun /\ [][NextRun]_vars

\* ------------------------------------------------------- claims: training

\* C4 (as claimed): after any sequence of train() and save() calls the
\* trainer's pipeline is absent or completely fitted, and so is whatever
\* save() has persisted.
C4_FitAllOrNothing ==
    /\ trainer.pipeline.state \in {"None", "fitted"}
    /\ model_path.exists => joblib_load(model_path).state = "fitted"

\* The categories of a dataset that cannot be trained on: one of them has
\* a single example, or fewer than two are present.
TooFewExamples(y) ==
    \/ \E i \in 1..Len(y) : y[i] = 1
    \/ Cardinality({i \in 1..Len(y) : y[i] > 0}) < 2

\* C5: in a training run whose dataset has a category with fewer than 2
\* examples, or fewer than 2 categories, train() raises the data error
\* (ValueError), no fitted pipeline without that category comes out,
\* save() is not reached and the artifact on disk is left as it was.
C5_TooFewExamplesAbort ==
    (run.pc \notin {"start", "loaded"} /\ LoaderRaises(dataset_path) = "None"
        /\ TooFewExamples(run.data.y))
    => /\ run.pc = "exit1"
       /\ run.raised = "ValueError"
       /\ train_call = [op |-> "train", raised |-> "ValueError", stage |-> train_call.stage]
       /\ train_call.stage \in {"split", "fit"}
       /\ trainer.pipeline.state # "fitted"
       /\ ~run.saved
       /\ model_path = run.model_before

\* C5's case: a run on a dataset that is fine but for one category with a
\* single example has ended, with an artifact of an earlier run on disk.
C5_Witness ==
    /\ run.pc = "exit1"
    /\ train_call.op = "train"
    /\ run.data.terms
    /\ \E i \in 1..Len(run.data.y) : run.data.y[i] = 1
    /\ \E i \in 1..Len(run.data.y) : run.data.y[i] >= cv
    /\ \A i \in 1..Len(run.data.y) : run.data.y[i] = 1 \/ run.data.y[i] >= cv
    /\ model_path = OldArtifact

\* C6 (as claimed): a fit whose optimizer did not converge aborts the run
\* and is never persisted: no run gets past train() with a non-converged
\* pipeline, and save() writes no such pipeline.
C6_NonConvergedAborts ==
    /\ (run.pc \in {"trained", "done"} => trainer.pipeline.converged)
    /\ (run.saved => joblib_load(model_path).converged)

\* C6 (amended): non-convergence is no error. A fit that did not converge
\* leaves a fitted pipeline; if cross-validation does not raise, train()
\* returns normally and the run goes on to save() exactly that pipeline. A
\* run ends with exit 1 and the artifact untouched only when the loader or
\* train() raised.
C6_NonConvergedIsSaved ==
    /\ (trainer.pipeline.state = "fitted" /\ ~trainer.pipeline.converged
            /\ _cross_validate(run.data) = "None")
       => (run.pc \in {"trained", "done"} /\ run.raised = "None")
    /\ run.pc = "done"
       => (run.saved /\ model_path = dump(trainer.pipeline)
              /\ trainer.pipeline.state = "fitted")
    /\ run.pc = "exit1"
       => (~run.saved /\ model_path = run.model_before /\ run.raised # "None")

\* C6's case: a run has saved a pipeline whose optimizer did not converge.
C6_Witness ==
    /\ run.pc = "done"
    /\ ~trainer.pipeline.converged
    /\ model_path = dump(trainer.pipeline)
    /\ model_path # run.model_before

\* ----------------------------------------------- specification: Predictor
\* One Predictor object: load(), predict() and classes in any order, while
\* training runs write the artifact and operators remove it.

InitPredictor ==
    /\ IdleTraining
    /\ model_path \in {NoFile} \cup {dump(p) : p \in ArtifactPipelines}
    /\ IdlePredictor
    /\ IdleApi

NextPredictor ==
    \/ Load
    \/ \E texte \in Texts : Predict(texte)
    \/ Classes
    \/ \E pipe \in ArtifactPipelines : ArtifactWritten(pipe)
    \/ ArtifactRemoved

SpecPredictor == InitPredictor /\ [][NextPredictor]_vars

\* --------------------------------------------------- specification: Store
\* The round trip: a trainer that holds a fitted pipeline save()s it, a
\* Predictor load()s the artifact and predicts.

InitStore ==
    /\ dataset_path = NoCsv
    /\ trainer \in {[pipeline |-> p, has_test |-> TRUE] : p \in FittedPipelines}
    /\ train_call = [op |-> "train", raised |-> "None", stage |-> "done"]
    /\ run = NoRun
    /\ trace = <<>>
    /\ model_path = NoFile
    /\ IdlePredictor
    /\ IdleApi

NextStore ==
    \/ Save
    \/ Load
    \/ \E texte \in Texts : Predict(texte)

SpecStore == InitStore /\ [][NextStore]_vars

\* ------------------------------------------------------ claims: Predictor

\* C1: on a Predictor on which no load() has succeeded, every predict()
\* raises the not-ready error (RuntimeError), returns no PredictionResult
\* and leaves the Predictor unloaded, whatever failed load() calls and
\* predict() calls came before.
C1_PredictBeforeLoadRaises ==
    ~ever_loaded
    => /\ ~is_loaded(predictor)
       /\ call.op = "predict"
          => (call.raised = "RuntimeError" /\ call.result = NoResult)

\* C1's case: predict() was called with a text on a Predictor that never
\* loaded, although an artifact is on disk by now.
C1_Witness ==
    /\ ~ever_loaded
    /\ call.op = "predict"
    /\ call.texte # <<>>
    /\ model_path.exists

\* The percentages of a returned result, in dict order.
Values(result) == [i \in 1..Len(result.probabilites) |-> result.probabilites[i][2]]

C8_PercentagesSumTo100 ==
    (call.op = "predict" /\ call.raised = "None")
    => /\ Len(call.result.probabilites) <= Len(CLASSES_VALIDES)
       /\ \A i \in 1..Len(call.result.probabilites) :
             /\ Values(call.result)[i] >= 0
             /\ Values(call.result)[i] <= Percent * Tenths
       /\ Sum(Values(call.result)) >= Percent * Tenths - 2
       /\ Sum(Values(call.result)) <= Percent * Tenths + 2

\* C8's case: four rounding ties that all go down; the sum is 99.8.
C8_Witness ==
    /\ call.op = "predict"
    /\ call.raised = "None"
    /\ Len(call.result.probabilites) = Len(CLASSES_VALIDES)
    /\ Sum(Values(call.result)) = Percent * Tenths - 2

\* C9: the confidence of every returned result is the maximum of the
\* returned one-decimal percentages.
C9_ConfidenceIsMaxPercentage ==
    (call.op = "predict" /\ call.raised = "None")
    => call.result.confiance = npmax(Values(call.result))

\* C9's case: the largest probability is a rounding tie and was rounded up.
C9_Witness ==
    /\ call.op = "predict"
    /\ call.raised = "None"
    /\ npmax(predict_proba(predictor, call.texte)) % UnitsPerTenth = TieStep
    /\ call.result.confiance * UnitsPerTenth > npmax(predict_proba(predictor, call.texte))
    /\ call.result.confiance = npmax(Values(call.result))

\* --------------------------------------------------------- serving layer

\* schemas.py: the dicts ACTIONS and REPONSES_AUTO, keyed by the four classes.
ActionKeys == {"Information", "Commande", "Reclamation", "Urgence"}

ACTIONS_DICT == [c \in ActionKeys |-> <<"ACTIONS", c>>]

REPONSES_AUTO == [c \in ActionKeys |-> <<"REPONSES_AUTO", c>>]

\* The JSON bodies of POST /predict: no message field, or a message.
Bodies ==
    {NoRequest} \cup {[has_message |-> TRUE, message |-> m] : m \in Texts}

\* A validator that strips without rejecting the empty result.
MessageNonVideNeverRaises(v) == FALSE

\* DemandeRequest.message_non_vide: raises on a blank message, else
\* returns it stripped.
MessageNonVideRaises(v) == strip(v) = <<>>

message_non_vide(v) == strip(v)

\* DemandeRequest(**body): the field is required, its length constraints
\* are checked on the raw string, then the validator runs.
ValidationFails(body) ==
    \/ ~body.has_message
    \/ Len(body.message) < min_length
    \/ Len(body.message) > max_length
    \/ MessageNonVideRaises(body.message)

\* A lifespan that catches nothing.
CaughtNothing(exc) == FALSE

\* lifespan: except FileNotFoundError.
Caught(exc) == exc = "FileNotFoundError"

\* A server that runs the startup code again while it is serving.
StartingAgain(a) == a.state \in {"init", "serving"}

\* The code of lifespan before the yield runs once, when the process starts.
Starting(a) == a.state = "init"

\* lifespan, up to the yield: Predictor(), load() under the try, then
\* app.state.predictor = predictor.  An exception that is not caught ends
\* the process.  loads counts the load() calls of the process and pipeline
\* keeps what the Predictor held when startup ended.
Lifespan ==
    /\ Starting(app)
    /\ LET raised == LoadRaises(model_path)
           alive  == raised = "None" \/ Caught(raised)
       IN  /\ predictor' = LoadPipeline(None, model_path)
           /\ ever_loaded' = (raised = "None")
           /\ call' = [NoCall EXCEPT !.op = "load", !.raised = raised]
           /\ app' = [state |-> IF alive THEN "serving" ELSE "crashed",
                      predictor |-> alive,
                      load_raised |-> raised,
                      artifact_at_start |-> model_path.exists,
                      loads |-> app.loads + 1,
                      pipeline |-> LoadPipeline(None, model_path)]
    /\ UNCHANGED <<threads, model_path, trainVars, response>>

\* GET /
Root ==
    /\ app.state = "serving"
    /\ response' = [NoResponse EXCEPT !.route = "/", !.status = 200]
    /\ UNCHANGED <<threads, model_path, trainVars, predictorVars, app>>

\* The classes property: the exception it raises, "None" when it returns
\* list(self._pipeline.classes_).
ClassesRaises(pipe) ==
    IF _check_loaded(pipe) # "None" THEN _check_loaded(pipe)
    ELSE IF pipe.state # "fitted" THEN "AttributeError"
    ELSE "None"

\* A handler that asks the Predictor for its classes whatever its state.
HealthAsksClassesAlways(pipe) == TRUE

\* routes.health: predictor.classes if predictor.is_loaded else [].
HealthAsksClasses(pipe) == is_loaded(pipe)

HealthRaises(pipe) == IF HealthAsksClasses(pipe) THEN ClassesRaises(pipe) ELSE "None"

\* GET /health: an exception in the handler is answered 500.
Health ==
    /\ app.state = "serving"
    /\ response' =
          IF HealthRaises(predictor) # "None"
          THEN [NoResponse EXCEPT !.route = "/health", !.status = 500]
          ELSE [NoResponse EXCEPT
                  !.route = "/health", !.status = 200,
                  !.health = [status |-> IF is_loaded(predictor) THEN "ok" ELSE "degraded",
                              modele_charge |-> is_loaded(predictor),
                              classes_disponibles |->
                                  IF HealthAsksClasses(predictor)
                                  THEN predictor.classes_ ELSE <<>>]]
    /\ UNCHANGED <<threads, model_path, trainVars, predictorVars, app>>

\* GET /classes
get_classes ==
    /\ app.state = "serving"
    /\ response' = [NoResponse EXCEPT !.route = "/classes", !.status = 200]
    /\ UNCHANGED <<threads, model_path, trainVars, predictorVars, app>>

\* A handler that goes to the model without asking whether it is loaded.
UnavailableNever(pipe) == FALSE

\* routes.predict: if not predictor.is_loaded: raise HTTPException(503).
Unavailable(pipe) == ~is_loaded(pipe)

\* A lookup that answers a default for a missing key, as dict.get does.
LookupWithDefault(dict, key) == FALSE

\* ACTIONS[result.classe], REPONSES_AUTO[result.classe]: KeyError on a
\* class that is no key; getitem is the value found.
LookupRaises(dict, key) == key \notin DOMAIN dict

getitem(dict, key) == IF key \in DOMAIN dict THEN dict[key] ELSE <<>>

\* routes.predict, the try block: the exception it catches, "None" when the
\* DemandeResponse is built.
TryRaises(pipe, texte) ==
    IF PredictRaises(pipe) # "None" THEN PredictRaises(pipe)
    ELSE IF LookupRaises(ACTIONS_DICT, PredictReturns(pipe, texte).classe) THEN "KeyError"
    ELSE IF LookupRaises(REPONSES_AUTO, PredictReturns(pipe, texte).classe) THEN "KeyError"
    ELSE "None"

\* POST /predict
predict(body) ==
    /\ app.state = "serving"
    /\ LET texte == message_non_vide(body.message)
           base  == [NoResponse EXCEPT !.route = "/predict", !.request = body]
       IN  IF ValidationFails(body)
           THEN /\ response' = [base EXCEPT !.status = 422]
                /\ UNCHANGED call
           ELSE IF Unavailable(predictor)
           THEN /\ response' = [base EXCEPT !.status = 503]
                /\ UNCHANGED call
           ELSE /\ call' = [NoCall EXCEPT !.op = "predict", !.texte = texte,
                                          !.raised = PredictRaises(predictor),
                                          !.result = PredictReturns(predictor, texte)]
                /\ response' =
                      IF TryRaises(predictor, texte) # "None"
                      THEN [base EXCEPT !.status = 500, !.predict_called = TRUE,
                                        !.texte = texte]
                      ELSE LET result == PredictReturns(predictor, texte)
                           IN  [base EXCEPT
                                   !.status = 200, !.predict_called = TRUE,
                                   !.texte = texte, !.result = result,
                                   !.action_automatique =
                                       getitem(ACTIONS_DICT, result.classe),
                                   !.reponse_client =
                                       getitem(REPONSES_AUTO, result.classe)]
    /\ UNCHANGED <<threads, model_path, trainVars, predictor, ever_loaded, app>>

\* ----------------------------------------------------- specification: Api
\* The serving process: startup, then requests in any order, while training
\* runs write the artifact and operators remove it.

\* An artifact that was trained elsewhere, on labels with a class the
\* serving layer has no entry for; load() takes whatever the file holds.
ForeignClasses == <<"Autre", "Commande", "Information", "Urgence">>

ForeignPipelines ==
    {[state |-> "fitted", classes_ |-> ForeignClasses, proba |-> p, converged |-> TRUE] :
        p \in ProbasWithin(Len(ForeignClasses), 0)}

InitApi ==
    /\ IdleTraining
    /\ model_path \in {NoFile} \cup {dump(p) : p \in ArtifactPipelines \cup ForeignPipelines}
    /\ IdlePredictor
    /\ IdleApi

NextApi ==
    \/ Lifespan
    \/ Root
    \/ Health
    \/ get_classes
    \/ \E body \in Bodies : predict(body)
    \/ \E pipe \in {p \in ArtifactPipelines : Len(p.classes_) = Len(CLASSES_VALIDES)} :
          ArtifactWritten(pipe)
    \/ ArtifactRemoved

SpecApi == InitApi /\ [][NextApi]_vars

\* --------------------------------------------------- claims: serving layer

\* C2: a POST /predict with a valid body, handled while the Predictor is
\* not loaded, is answered 503 without Predictor.predict being invoked,
\* and the process goes on serving.
C2_UnloadedGives503 ==
    (response.route = "/predict" /\ ~ValidationFails(response.request)
        /\ predictor = None)
    => /\ response.status = 503
       /\ ~response.predict_called
       /\ call.op # "predict"
       /\ app.state = "serving"

\* C2's case: such a request was answered.
C2_Witness ==
    /\ response.route = "/predict"
    /\ ~ValidationFails(response.request)
    /\ predictor = None
    /\ response.status = 503

\* C3: when no artifact exists at startup, load() raises the not-found
\* error and sets no pipeline, and startup completes in degraded mode: a
\* Predictor is installed in the application state and is not loaded.
C3_StartupDegrades ==
    (app.state # "init" /\ ~app.artifact_at_start)
    => /\ app.state = "serving"
       /\ app.load_raised = "FileNotFoundError"
       /\ app.predictor
       /\ ~is_loaded(predictor)
       /\ ~ever_loaded

\* C3's case: the process started without an artifact and has answered
\* GET /health in degraded mode.
C3_Witness ==
    /\ app.state = "serving"
    /\ ~app.artifact_at_start
    /\ response.route = "/health"
    /\ response.health.status = "degraded"

\* A request with no usable message: no message field, or a message that
\* is empty once trimmed.
BlankRequest(request) == ~request.has_message \/ strip(request.message) = <<>>

\* C10: a POST /predict whose message is missing or empty after trimming
\* is answered 422 and never reaches Predictor.predict, whether or not a
\* model is loaded.
C10_BlankMessageRejected ==
    (response.route = "/predict" /\ BlankRequest(response.request))
    => /\ response.status = 422
       /\ ~response.predict_called
       /\ response.texte = <<>>
       /\ response.result = NoResult

\* C10's case: a message of blanks long enough to pass min_length was
\* rejected although no model is loaded.
C10_Witness ==
    /\ response.route = "/predict"
    /\ response.request.has_message
    /\ Len(response.request.message) >= min_length
    /\ strip(response.request.message) = <<>>
    /\ response.status = 422
    /\ ~is_loaded(predictor)

\* C11 (as claimed): every text handed to Predictor.predict by POST /predict
\* has, after the trimming of the request model, a length of min_length to
\* max_length characters.
C11_PredictTextLengthInRange ==
    (response.route = "/predict" /\ response.predict_called)
    => /\ Len(response.texte) >= min_length
       /\ Len(response.texte) <= max_length

\* ---------------------------------------------- specification: Concurrent
\* Worker threads of the serving process inside Predictor.predict at the
\* same time, one statement of predict() per step, on a Predictor that
\* load()ed the artifact at startup.

\* The two kinds of text a fitted pipeline tells apart: without and with a
\* vocabulary term.
ThreadTexts == {<<"a">>, <<"a", "a">>}

\* A fitted estimator that keeps the answer to its last text as its state.
PipelineKeepsLastAnswer(pipe, texte) == [pipe EXCEPT !.proba = predict_proba(pipe, texte)]

\* Pipeline.predict and Pipeline.predict_proba on a fitted pipeline: the
\* pipeline the call leaves behind (transform and decision are read-only).
PipelineAfterCall(pipe, texte) == pipe

\* def predict(self, texte): a thread enters.
PredictBegin(t, texte) ==
    /\ threads[t].pc = "idle"
    /\ threads' = [threads EXCEPT ![t] = [NoThread EXCEPT !.pc = "check", !.texte = texte]]
    /\ UNCHANGED <<model_path, trainVars, predictorVars, apiVars>>

\* self._check_loaded()
PredictCheckLoaded(t) ==
    /\ threads[t].pc = "check"
    /\ threads' = [threads EXCEPT ![t] =
          IF _check_loaded(predictor) # "None"
          THEN [@ EXCEPT !.pc = "done", !.raised = _check_loaded(predictor)]
          ELSE [@ EXCEPT !.pc = "predict"]]
    /\ UNCHANGED <<model_path, trainVars, predictorVars, apiVars>>

\* What a method call on self._pipeline raises.
PipelineCallRaises(pipe) ==
    IF pipe = None THEN "AttributeError"
    ELSE IF pipe.state # "fitted" THEN "NotFittedError"
    ELSE "None"

\* classe = self._pipeline.predict([texte])[0]
PredictClasse(t) ==
    /\ threads[t].pc = "predict"
    /\ IF PipelineCallRaises(predictor) # "None"
       THEN /\ threads' = [threads EXCEPT ![t] =
                  [@ EXCEPT !.pc = "done", !.raised = PipelineCallRaises(predictor)]]
            /\ UNCHANGED predictor
       ELSE /\ threads' = [threads EXCEPT ![t] =
                  [@ EXCEPT !.pc = "proba",
                            !.classe = predictor.classes_[
                                argmax(predict_proba(predictor, threads[t].texte))]]]
            /\ predictor' = PipelineAfterCall(predictor, threads[t].texte)
    /\ UNCHANGED <<model_path, trainVars, ever_loaded, call, apiVars>>

\* probas_array = self._pipeline.predict_proba([texte])[0]
PredictProbas(t) ==
    /\ threads[t].pc = "proba"
    /\ IF PipelineCallRaises(predictor) # "None"
       THEN /\ threads' = [threads EXCEPT ![t] =
                  [@ EXCEPT !.pc = "done", !.raised = PipelineCallRaises(predictor)]]
            /\ UNCHANGED predictor
       ELSE /\ threads' = [threads EXCEPT ![t] =
                  [@ EXCEPT !.pc = "classes",
                            !.probas_array = predict_proba(predictor, threads[t].texte)]]
            /\ predictor' = PipelineAfterCall(predictor, threads[t].texte)
    /\ UNCHANGED <<model_path, trainVars, ever_loaded, call, apiVars>>

\* classes = self._pipeline.classes_
PredictReadClasses(t) ==
    /\ threads[t].pc = "classes"
    /\ threads' = [threads EXCEPT ![t] =
          IF PipelineCallRaises(predictor) # "None"
          THEN [@ EXCEPT !.pc = "done", !.raised = PipelineCallRaises(predictor)]
          ELSE [@ EXCEPT !.pc = "build", !.classes = predictor.classes_]]
    /\ UNCHANGED <<model_path, trainVars, predictorVars, apiVars>>

\* probabilites = {...}; confiance = ...; return PredictionResult(...): all
\* from the locals of the thread.
PredictReturn(t) ==
    /\ threads[t].pc = "build"
    /\ LET th  == threads[t]
           pct == Percentages(th.probas_array)
           n   == IF Len(th.classes) <= Len(pct) THEN Len(th.classes) ELSE Len(pct)
       IN  threads' = [threads EXCEPT ![t] =
              [@ EXCEPT !.pc = "done",
                        !.result = [classe       |-> th.classe,
                                    confiance    |-> Confiance(th.probas_array),
                                    probabilites |-> [i \in 1..n |-> <<th.classes[i], pct[i]>>]]]]
    /\ UNCHANGED <<model_path, trainVars, predictorVars, apiVars>>

\* The caller has taken the result (or the exception); the thread is free.
PredictEnd(t) ==
    /\ threads[t].pc = "done"
    /\ threads' = [threads EXCEPT ![t] = NoThread]
    /\ UNCHANGED <<model_path, trainVars, predictorVars, apiVars>>

InitConcurrent ==
    /\ IdleTraining
    /\ model_path \in {dump(p) : p \in ArtifactPipelines}
    /\ predictor = LoadPipeline(None, model_path)
    /\ ever_loaded = TRUE
    /\ call = [NoCall EXCEPT !.op = "load"]
    /\ IdleThreads
    /\ IdleApi

NextConcurrent ==
    \E t \in Threads :
        \/ \E texte \in ThreadTexts : PredictBegin(t, texte)
        \/ PredictCheckLoaded(t)
        \/ PredictClasse(t)
        \/ PredictProbas(t)
        \/ PredictReadClasses(t)
        \/ PredictReturn(t)
        \/ PredictEnd(t)

SpecConcurrent == InitConcurrent /\ [][NextConcurrent]_vars

\* C12: however the statements of concurrent predict() calls on a loaded
\* Predictor interleave, the loaded pipeline stays the one load() read from
\* the artifact, and every call that has returned holds the result a
\* predict() running alone gives for its text, without raising.
C12_ConcurrentPredictIsolated ==
    /\ predictor = joblib_load(model_path)
    /\ \A t \in Threads :
          threads[t].pc = "done"
          => /\ threads[t].raised = "None"
             /\ threads[t].result = PredictReturns(joblib_load(model_path), threads[t].texte)

\* C12's case: a call on a text with a vocabulary term has returned while a
\* call on a text without one is between its reads of the pipeline.
C12_Witness ==
    \E t, u \in Threads :
        /\ t # u
        /\ threads[t].pc = "done"
        /\ HasTerm(threads[t].texte)
        /\ threads[t].result.classe # ""
        /\ threads[u].pc \in {"proba", "classes"}
        /\ ~HasTerm(threads[u].texte)
        /\ threads[t].result # PredictReturns(predictor, threads[u].texte)

\* C13: a serving process calls Predictor.load() exactly once, at startup
\* and before it handles any request; afterwards no handler calls load()
\* or replaces the pipeline, so the Predictor holds what startup left in
\* it (one pipeline, or none) whatever happens to the artifact on disk.
C13_LoadedOnceAtStartup ==
    /\ app.state = "init" => (app.loads = 0 /\ response = NoResponse /\ predictor = None)
    /\ app.state # "init" => app.loads = 1
    /\ response.route # "none" => (app.state = "serving" /\ app.loads = 1)
    /\ app.state = "serving" => predictor = app.pipeline
    /\ call.op = "load" => call.raised = app.load_raised

\* C13's case: the process loaded a pipeline at startup, the artifact was
\* replaced by another one since, and requests on every route but / were
\* answered from the pipeline of startup.
C13_Witness ==
    /\ app.state = "serving"
    /\ app.loads = 1
    /\ is_loaded(predictor)
    /\ model_path.exists
    /\ joblib_load(model_path) # predictor
    /\ response.route = "/predict"
    /\ response.status = 200
    /\ call.op = "predict"

\* C14: every GET /health is answered 200 and tells the state of the
\* Predictor: status "ok" and modele_charge true with the classes of the
\* loaded pipeline when it is loaded, else status "degraded",
\* modele_charge false and no classes; the handler never raises.
C14_HealthReflectsPredictor ==
    response.route = "/health"
    => /\ response.status = 200
       /\ HealthRaises(predictor) = "None"
       /\ response.health.modele_charge = is_loaded(predictor)
       /\ response.health.status = "ok" <=> is_loaded(predictor)
       /\ is_loaded(predictor)
          => response.health.classes_disponibles = predictor.classes_
       /\ ~is_loaded(predictor)
          => (response.health.status = "degraded"
                 /\ response.health.classes_disponibles = <<>>)

\* C14's case: GET /health answered degraded, with no classes, by a process
\* that started without a model, although an artifact is on disk by now.
C14_Witness ==
    /\ response.route = "/health"
    /\ response.status = 200
    /\ ~response.health.modele_charge
    /\ response.health.classes_disponibles = <<>>
    /\ model_path.exists
    /\ ~is_loaded(predictor)

\* C15: every 200 response of POST /predict names the class predict()
\* returned, that class is one of the four categories, and
\* action_automatique and reponse_client are the entries of ACTIONS and
\* REPONSES_AUTO for it; a predicted class outside the four is answered 500.
C15_OkResponseNamesValidClass ==
    /\ (response.route = "/predict" /\ response.status = 200)
       => /\ response.predict_called
          /\ response.result = call.result
          /\ response.result.classe \in {CLASSES_VALIDES[i] : i \in 1..Len(CLASSES_VALIDES)}
          /\ response.result.classe \in ActionKeys
          /\ response.action_automatique = ACTIONS_DICT[response.result.classe]
          /\ response.reponse_client = REPONSES_AUTO[response.result.classe]
    /\ (response.route = "/predict" /\ response.predict_called
           /\ call.result.classe \notin ActionKeys)
       => (response.status = 500 /\ response.action_automatique = <<>>
              /\ response.reponse_client = <<>>)

\* C15's case: a model that knows a class outside the four has answered a
\* text with the class Urgence, and the response carries the entries of
\* Urgence.
C15_Witness ==
    /\ response.route = "/predict"
    /\ response.status = 200
    /\ predictor.classes_ = ForeignClasses
    /\ response.result.classe = "Urgence"
    /\ response.action_automatique = ACTIONS_DICT["Urgence"]
    /\ response.reponse_client = REPONSES_AUTO["Urgence"]

\* ------------------------------------------------- specification: Deploy
\* The repository end to end: train_model.py runs on a dataset the loader
\* accepts and writes the artifact; the serving process starts at any time
\* and answers /health and /predict.

InitDeploy ==
    /\ dataset_path \in {csv \in CsvFiles : LoaderRaises(csv) = "None" /\ csv.data.terms}
    /\ model_path = NoFile
    /\ trainer = NewTrainer
    /\ train_call = NoTrainCall
    /\ run = NoRun
    /\ trace = <<>>
    /\ IdlePredictor
    /\ IdleApi

NextDeploy ==
    \/ MainLoad
    \/ \E learned \in FitResults(unique(run.data.y)) : MainTrain(learned)
    \/ MainSave
    \/ Lifespan
    \/ Health
    \/ \E body \in Bodies : predict(body)

SpecDeploy == InitDeploy /\ [][NextDeploy]_vars

\* C16 (as claimed): once the serving process has loaded the model that the
\* training run wrote, GET /health lists exactly four classes and every 200
\* response of POST /predict carries exactly four probabilities, one for
\* each of the four categories.
C16_TrainedModelHasFourClasses ==
    (app.state = "serving" /\ is_loaded(predictor) /\ run.pc = "done"
        /\ model_path = dump(predictor))
    => /\ response.route = "/health"
          => Len(response.health.classes_disponibles) = Len(CLASSES_VALIDES)
       /\ (response.route = "/predict" /\ response.status = 200)
          => [i \in 1..Len(response.result.probabilites) |->
                 response.result.probabilites[i][1]] = CLASSES_VALIDES

\* ------------------------------------------------- specification: Loader
\* DataLoader.load() on a CSV file read row by row.  A cell is null (NaN,
\* which is also what pandas reads an empty field as) or a string; a label
\* string is a sequence of blanks and words.

\* Rows in a CSV file.
MaxRows == 2

\* loader.py: df["texte"].str.len() < 5.
texte_court == 5

NullCell == [null |-> TRUE, s |-> <<>>]

TextCells ==
    {NullCell} \cup {[null |-> FALSE, s |-> t] : t \in {u \in Texts : Len(u) >= MaxMsgLen - 1}}

LabelCells ==
    {NullCell} \cup
    {[null |-> FALSE, s |-> l] :
        l \in {<<"Urgence">>, <<"Commande">>, <<"Urgence", " ">>, <<"Autre">>, <<" ">>}}

Rows == {[texte |-> t, classe |-> c] : t \in TextCells, c \in LabelCells}

RECURSIVE FramesUpTo(_)
FramesUpTo(n) ==
    IF n = 0 THEN {<<>>}
    ELSE LET shorter == FramesUpTo(n - 1)
         IN  shorter \cup {Append(f, r) : f \in {g \in shorter : Len(g) = n - 1}, r \in Rows}

\* The file at dataset_path: missing, or a frame with or without the two
\* columns.
CsvFrames ==
    {[exists |-> FALSE, columns |-> FALSE, rows |-> <<>>]} \cup
    {[exists |-> TRUE, columns |-> c, rows |-> f] : c \in BOOLEAN, f \in FramesUpTo(MaxRows)}

ClassesValidesSet == {CLASSES_VALIDES[i] : i \in 1..Len(CLASSES_VALIDES)}

\* set(df["classe"].unique()) - CLASSES_VALIDES, on the labels as read.
classes_inconnues(rows) ==
    {rows[i].classe.s : i \in {j \in 1..Len(rows) : ~rows[j].classe.null}}
        \ {<<c>> : c \in ClassesValidesSet}

\* df[df["texte"].str.len() < 5]
textes_courts(rows) ==
    {i \in 1..Len(rows) : ~rows[i].texte.null /\ Len(rows[i].texte.s) < texte_court}

\* What _validate looks at in the frame, and the (X, y) of a frame it passes.
CsvOf(file) ==
    [exists  |-> file.exists,
     columns |-> file.columns,
     nulls   |-> \E i \in 1..Len(file.rows) :
                    file.rows[i].texte.null \/ file.rows[i].classe.null,
     unknown |-> classes_inconnues(file.rows) # {},
     data    |-> [y |-> [k \in 1..Len(CLASSES_VALIDES) |->
                            Cardinality({i \in 1..Len(file.rows) :
                                file.rows[i].classe.s = <<CLASSES_VALIDES[k]>>})],
                  terms |-> \E i \in 1..Len(file.rows) : HasTerm(file.rows[i].texte.s)]]

\* X = df["texte"].str.strip(); y = df["classe"].str.strip()
Returned(file) ==
    [i \in 1..Len(file.rows) |->
        [texte |-> strip(file.rows[i].texte.s), classe |-> strip(file.rows[i].classe.s)]]

\* DataLoader.load(): run keeps what it returned or raised, train_call
\* whether _validate logged the short-text warning.
DataLoaderLoad ==
    /\ run.pc = "start"
    /\ LET raised == LoaderRaises(CsvOf(dataset_path))
       IN  /\ run' = IF raised = "None"
                     THEN [run EXCEPT !.pc = "loaded", !.data = Returned(dataset_path)]
                     ELSE [run EXCEPT !.pc = "raised", !.raised = raised]
           /\ train_call' =
                 [op |-> "load", raised |-> raised,
                  stage |-> IF CsvOf(dataset_path).exists /\ CsvOf(dataset_path).columns
                               /\ ~CsvOf(dataset_path).nulls /\ ~CsvOf(dataset_path).unknown
                               /\ textes_courts(dataset_path.rows) # {}
                            THEN "warning" ELSE "none"]
    /\ UNCHANGED <<threads, trace, dataset_path, model_path, trainer, predictorVars, apiVars>>

InitLoader ==
    /\ dataset_path \in CsvFrames
    /\ model_path = NoFile
    /\ trainer = NewTrainer
    /\ train_call = NoTrainCall
    /\ run = NoRun
    /\ trace = <<>>
    /\ IdlePredictor
    /\ IdleApi

NextLoader == DataLoaderLoad

SpecLoader == InitLoader /\ [][NextLoader]_vars

\* C17 (as claimed): when load() returns, every returned example has a
\* non-empty text and a non-empty label of the valid category set, no cell
\* of the file was null, and a short text only logged a warning; a file
\* with a null, empty or unknown cell makes load() raise ValueError.
C17_LoadedExamplesValid ==
    /\ run.pc = "loaded"
       => /\ \A i \in 1..Len(run.data) :
                /\ run.data[i].texte # <<>>
                /\ run.data[i].classe \in {<<c>> : c \in ClassesValidesSet}
          /\ \A i \in 1..Len(dataset_path.rows) :
                ~dataset_path.rows[i].texte.null /\ ~dataset_path.rows[i].classe.null
    /\ (run.pc = "raised" /\ dataset_path.exists) => run.raised = "ValueError"
    /\ train_call.stage = "warning" => run.pc = "loaded"

\* --------------------------------------------- specification: TrainSteps
\* train_model.py with ModelTrainer.train() taken one statement at a time;
\* trace logs each statement that completed and the pipeline the trainer
\* held when it did.

\* A cross-validation that fits the pipeline it is given instead of clones,
\* leaving in it what the last fold learned.
CrossValidateFitsInPlace(pipe) == [pipe EXCEPT !.proba = Prior(Len(pipe.classes_))]

\* cross_val_score(self.pipeline, X, y, cv=5): it clones the estimator for
\* every fold; the pipeline it leaves behind.
CrossValidateLeaves(pipe) == pipe

\* self.pipeline.predict(X_test) and the reports of _evaluate: the
\* pipeline they leave behind.
EvaluateLeaves(pipe) == pipe

Logged(step) == Append(trace, [step |-> step, pipeline |-> trainer'.pipeline])

Raise(exc) == run' = [run EXCEPT !.pc = "exit1", !.raised = exc]

\* X_train, ... = self._split(X, y); self.X_test = X_test; self.y_test = y_test
TrainSplit ==
    /\ run.pc = "loaded"
    /\ IF _split(run.data) # "None"
       THEN /\ Raise(_split(run.data))
            /\ UNCHANGED <<trainer, trace>>
       ELSE /\ run' = [run EXCEPT !.pc = "split"]
            /\ trainer' = [trainer EXCEPT !.has_test = TRUE]
            /\ trace' = Logged("split")
    /\ UNCHANGED <<threads, dataset_path, model_path, train_call, predictorVars, apiVars>>

\* self.pipeline = self._build_pipeline()
TrainBuild ==
    /\ run.pc = "split"
    /\ run' = [run EXCEPT !.pc = "built"]
    /\ trainer' = [trainer EXCEPT !.pipeline = _build_pipeline]
    /\ trace' = Logged("build")
    /\ UNCHANGED <<threads, dataset_path, model_path, train_call, predictorVars, apiVars>>

\* self.pipeline.fit(X_train, y_train)
TrainFit(learned) ==
    /\ run.pc = "built"
    /\ trainer' = [trainer EXCEPT !.pipeline = FitLeaves(trainer.pipeline, run.data, learned)]
    /\ IF FitRaises(run.data, learned) # "None"
       THEN /\ Raise(FitRaises(run.data, learned))
            /\ UNCHANGED trace
       ELSE /\ run' = [run EXCEPT !.pc = "fit"]
            /\ trace' = Logged("fit")
    /\ UNCHANGED <<threads, dataset_path, model_path, train_call, predictorVars, apiVars>>

\* self._evaluate(X_test, y_test)
TrainEvaluate ==
    /\ run.pc = "fit"
    /\ run' = [run EXCEPT !.pc = "evaluated"]
    /\ trainer' = [trainer EXCEPT !.pipeline = EvaluateLeaves(trainer.pipeline)]
    /\ trace' = Logged("evaluate")
    /\ UNCHANGED <<threads, dataset_path, model_path, train_call, predictorVars, apiVars>>

\* self._cross_validate(X, y); return self
TrainCrossValidate ==
    /\ run.pc = "evaluated"
    /\ IF _cross_validate(run.data) # "None"
       THEN /\ Raise(_cross_validate(run.data))
            /\ UNCHANGED <<trainer, trace>>
       ELSE /\ run' = [run EXCEPT !.pc = "trained"]
            /\ trainer' = [trainer EXCEPT !.pipeline = CrossValidateLeaves(trainer.pipeline)]
            /\ trace' = Logged("cross_validate")
    /\ UNCHANGED <<threads, dataset_path, model_path, train_call, predictorVars, apiVars>>

InitTrainSteps == InitRun

NextTrainSteps ==
    \/ MainLoad
    \/ TrainSplit
    \/ TrainBuild
    \/ \E learned \in FitResults(unique(run.data.y)) : TrainFit(learned)
    \/ TrainEvaluate
    \/ TrainCrossValidate
    \/ MainSave

SpecTrainSteps == InitTrainSteps /\ [][NextTrainSteps]_vars

\* The statements of train(), in the order of the source.
TrainOrder == <<"split", "build", "fit", "evaluate", "cross_validate">>

\* C18: the statements of train() complete in the order split, (build,)
\* fit, evaluate, cross-validate, so evaluation and cross-validation only
\* run on a pipeline whose fit has completed; from the fit on, the trainer
\* holds exactly the pipeline fit produced, and save() persists exactly it.
C18_ReportingLeavesFitUntouched ==
    /\ Len(trace) <= Len(TrainOrder)
    /\ \A i \in 1..Len(trace) : trace[i].step = TrainOrder[i]
    /\ \A i \in 1..Len(trace) :
          i >= 3 => /\ trace[3].pipeline.state = "fitted"
                    /\ trace[i].pipeline = trace[3].pipeline
                    /\ trainer.pipeline = trace[3].pipeline
    /\ run.pc \in {"trained", "done"}
       => (Len(trace) = Len(TrainOrder) /\ trainer.pipeline = trace[3].pipeline)
    /\ run.pc = "done" => model_path = dump(trace[3].pipeline)

\* C18's case: a run whose cross-validation completed has saved a pipeline
\* that is not the prior and differs from the artifact it replaced.
C18_Witness ==
    /\ run.pc = "done"
    /\ Len(trace) = Len(TrainOrder)
    /\ trace[Len(trace)].step = "cross_validate"
    /\ trainer.pipeline.proba # Prior(Len(trainer.pipeline.classes_))
    /\ model_path = dump(trace[3].pipeline)
    /\ run.model_before.exists
    /\ model_path # run.model_before

\* C19: once a load() has succeeded the Predictor is loaded in every later
\* state, whatever predict(), classes and load() calls follow; a load()
\* that raises FileNotFoundError because the artifact is gone leaves the
\* pipeline as it was.
C19_LoadedIsPermanent ==
    [][/\ ever_loaded => (is_loaded(predictor) /\ is_loaded(predictor'))
       /\ ever_loaded' => is_loaded(predictor')
       /\ (call'.op = "load" /\ call'.raised = "FileNotFoundError")
          => predictor' = predictor]_vars

\* C19's case: a loaded Predictor whose last call is a load() that failed
\* on the missing artifact.
C19_Witness ==
    /\ ever_loaded
    /\ call.op = "load"
    /\ call.raised = "FileNotFoundError"
    /\ ~model_path.exists
    /\ is_loaded(predictor)

====
